---- MODULE Spec2Model ----
(***************************************************************************)
(* Inventory / order consistency workflow of the backend:                  *)
(*   compra.controller.js   crearCompra, actualizarCompra, anularCompra    *)
(*   bodega.controller.js   registrarRecepcion, modificarRecepcion,        *)
(*                          anularRecepcion                                *)
(*   producto.controller.js crearProducto, ajustarStock                    *)
(*   productos.controller.js ajustarStock                                  *)
(*   factura.controller.js  crearFacturaPOS                                *)
(*                                                                         *)
(* The relational store is the state.  A handler that validates on reads   *)
(* made outside its prisma.$transaction is split in two steps: the read    *)
(* step (all validations, on the committed state of that moment) and the   *)
(* transaction step (the $transaction callback, applied atomically).       *)
(* Other handlers are one step.                                            *)
(*                                                                         *)
(* Numbers.  The cantidad of a purchase-order body is in tenths, so that a *)
(* fractional quantity and parseInt can be told apart; money is in 1/10000 *)
(* so that a value with four decimals and the rounding of toFixed(3) can   *)
(* be told apart.  Arithmetic is exact decimal arithmetic.                 *)
(***************************************************************************)
EXTENDS Integers, Sequences, FiniteSets, TLC

\* ---------------------------------------------------------------- bounds
MaxProductos   == 2
MaxCompras     == 1
MaxLineas      == 2
MaxRecepciones == 2
MaxAjustes     == 1
MaxFacturas    == 3
MaxAnios       == 1
MaxDetalleId   == 3

\* ------------------------------------------------------ program constants
MaxCantidad   == 999999
MaxCostoMilli == 999999999
AnchoSecuencia == 6

Procs == {"a", "b"}

\* --------------------------------------------------------------- helpers
Digits == <<"1", "2", "3", "4", "5", "6", "7", "8", "9">>

\* id_producto generated by the database for the n-th product
NuevoIdProducto(n) == <<"P", Digits[n]>>

RECURSIVE TrimStart(_)
TrimStart(s) == IF s # <<>> /\ Head(s) = " " THEN TrimStart(Tail(s)) ELSE s

RECURSIVE TrimEnd(_)
TrimEnd(s) == IF s # <<>> /\ s[Len(s)] = " "
              THEN TrimEnd(SubSeq(s, 1, Len(s) - 1)) ELSE s

\* String.prototype.trim on a string held as a sequence of characters
Trim(s) == TrimEnd(TrimStart(s))

\* parseInt of a positive number given in tenths: the integer part
ParseInt(c) == c \div 10

\* a cost [m |-> thousandths, t |-> extra ten-thousandths digit] in 1/10000
CostoE4(c) == c.m * 10 + c.t
CostoPositivo(c) == c.m > 0 \/ (c.m = 0 /\ c.t > 0)

\* parseFloat(x.toFixed(3)) of a non-negative amount in 1/10000
Round3(x) == ((x + 5) \div 10) * 10

RECURSIVE SumSeq(_)
SumSeq(s) == IF s = <<>> THEN 0 ELSE Head(s) + SumSeq(Tail(s))

\* ----------------------------------------------------------------- state
VARIABLES
  producto,           \* id_producto -> row of table producto
  compra,             \* id_compra (1..n) -> row of table compra
  detalle_compra,     \* id_detalle_compra -> row of table detalle_compra
  nextDetalle,        \* serial of detalle_compra.id_detalle_compra
  recepcion,          \* sequence of rows of recepcion, each with its detalles
  ajuste_inventario,  \* sequence of rows of ajuste_inventario with detalle
  factura,            \* sequence of rows of factura with their detalles
  anio,               \* new Date().getFullYear()
  pend,               \* per client: the request between its reads and its tx
  resp                \* the last response sent

db == <<producto, compra, detalle_compra, nextDetalle, recepcion,
        ajuste_inventario, factura, anio>>
vars == <<producto, compra, detalle_compra, nextDetalle, recepcion,
          ajuste_inventario, factura, anio, pend, resp>>

Idle == [op |-> "idle"]

Reply(op, status) == [op |-> op, status |-> status]

Init ==
  /\ producto = <<>>
  /\ compra = <<>>
  /\ detalle_compra = <<>>
  /\ nextDetalle = 1
  /\ recepcion = <<>>
  /\ ajuste_inventario = <<>>
  /\ factura = <<>>
  /\ anio = 2026
  /\ pend = [p \in Procs |-> Idle]
  /\ resp = Reply("none", 0)

\* ------------------------------------------------------------- producto
\* the function f extended or overwritten at key k
Put(f, k, v) == [x \in DOMAIN f \cup {k} |-> IF x = k THEN v ELSE f[x]]

\* POST /productos.  precio_venta is in 1/10000; saldo_inicial is what the
\* body carries (0 when absent).
crearProducto(precio_venta, saldo_inicial) ==
  /\ Cardinality(DOMAIN producto) < MaxProductos
  /\ IF precio_venta <= 0
     THEN /\ resp' = Reply("crearProducto", 400)
          /\ UNCHANGED <<db, pend>>
     ELSE /\ producto' = Put(producto,
                 NuevoIdProducto(Cardinality(DOMAIN producto) + 1),
                 [precio_venta  |-> precio_venta,
                  saldo_inicial |-> saldo_inicial,
                  ingresos      |-> 0,
                  egresos       |-> 0,
                  ajustes       |-> 0,
                  saldo_actual  |-> saldo_inicial,
                  estado        |-> "ACT"])
          /\ resp' = Reply("crearProducto", 201)
          /\ UNCHANGED <<compra, detalle_compra, nextDetalle, recepcion,
                         ajuste_inventario, factura, anio,
                         pend>>

\* (mutant) the update also takes the balance back to the initial balance
DataActualizarConSaldo(p, body) ==
  IF body.precio_venta.def
  THEN [p EXCEPT !.precio_venta = body.precio_venta.v,
                 !.saldo_actual = p.saldo_inicial]
  ELSE [p EXCEPT !.saldo_actual = p.saldo_inicial]

\* dataActualizar of PUT /productos/:id: of the fields the row carries, only
\* precio_venta can be part of it
DataActualizar(p, body) ==
  IF body.precio_venta.def
  THEN [p EXCEPT !.precio_venta = body.precio_venta.v]
  ELSE p

\* PUT /productos/:id.  The body says whether codigo_barras belongs to another
\* product, carries precio_venta (def FALSE when undefined), says whether
\* costo_promedio is negative and whether a catalog row it names (categoria,
\* marca, unidad de medida) is absent.
actualizarProducto(id_producto, body) ==
  LET status ==
        IF id_producto \notin DOMAIN producto THEN 404
        ELSE IF body.codigoDuplicado THEN 409
        ELSE IF body.precio_venta.def /\ body.precio_venta.v <= 0 THEN 400
        ELSE IF body.costoNegativo THEN 400
        ELSE IF body.catalogoAusente THEN 404
        ELSE 200
  IN /\ resp' = Reply("actualizarProducto", status)
     /\ IF status # 200
        THEN UNCHANGED <<db, pend>>
        ELSE /\ producto' = [producto EXCEPT ![id_producto] =
                               DataActualizar(producto[id_producto], body)]
             /\ UNCHANGED <<compra, detalle_compra, nextDetalle, recepcion,
                            ajuste_inventario, factura, anio, pend>>

\* PUT /productos/:id/estado
cambiarEstadoProducto(id_producto, estado) ==
  LET status ==
        IF estado = "" \/ (estado # "ACT" /\ estado # "INA") THEN 400
        ELSE IF id_producto \notin DOMAIN producto THEN 404
        ELSE IF producto[id_producto].estado = estado THEN 400
        ELSE 200
  IN /\ resp' = Reply("cambiarEstadoProducto", status)
     /\ IF status # 200
        THEN UNCHANGED <<db, pend>>
        ELSE /\ producto' = [producto EXCEPT ![id_producto].estado = estado]
             /\ UNCHANGED <<compra, detalle_compra, nextDetalle, recepcion,
                            ajuste_inventario, factura, anio, pend>>

\* DELETE /productos/:id
eliminarProducto(id_producto) ==
  LET status ==
        IF id_producto \notin DOMAIN producto THEN 404
        ELSE IF producto[id_producto].estado = "INA" THEN 400
        ELSE 200
  IN /\ resp' = Reply("eliminarProducto", status)
     /\ IF status # 200
        THEN UNCHANGED <<db, pend>>
        ELSE /\ producto' = [producto EXCEPT ![id_producto].estado = "INA"]
             /\ UNCHANGED <<compra, detalle_compra, nextDetalle, recepcion,
                            ajuste_inventario, factura, anio, pend>>

\* POST /productos/:id/ajustar-stock
ajustarStock(id_producto, cantidad, tipo) ==
  /\ Len(ajuste_inventario) < MaxAjustes
  /\ IF cantidad = 0 \/ tipo = ""
     THEN /\ resp' = Reply("ajustarStock", 400)
          /\ UNCHANGED <<db, pend>>
     ELSE IF tipo # "INC" /\ tipo # "DEC"
     THEN /\ resp' = Reply("ajustarStock", 400)
          /\ UNCHANGED <<db, pend>>
     ELSE IF id_producto \notin DOMAIN producto
     THEN /\ resp' = Reply("ajustarStock", 404)
          /\ UNCHANGED <<db, pend>>
     ELSE LET ajuste == IF tipo = "INC" THEN cantidad ELSE 0 - cantidad
              abs == IF ajuste < 0 THEN 0 - ajuste ELSE ajuste
              p == producto[id_producto]
          IN /\ producto' = [producto EXCEPT ![id_producto] =
                   [p EXCEPT !.ajustes = p.ajustes + ajuste,
                             !.saldo_actual = p.saldo_actual + ajuste]]
             /\ ajuste_inventario' = Append(ajuste_inventario,
                   [tipo |-> IF tipo = "INC" THEN "E" ELSE "S",
                    num_productos |-> 1,
                    estado |-> "ACT",
                    detalles |-> <<[id_producto |-> id_producto,
                                    cantidad |-> abs]>>])
             /\ resp' = Reply("ajustarStock", 200)
             /\ UNCHANGED <<compra, detalle_compra, nextDetalle, recepcion,
                            factura, anio, pend>>

\* POST /productos/:id/ajustar-stock as productos.controller.js has it: the
\* same handler, whose transaction increments ajustes only
ajustarStock_productos(id, cantidad, tipo) ==
  /\ Len(ajuste_inventario) < MaxAjustes
  /\ IF cantidad = 0 \/ tipo = ""
     THEN /\ resp' = Reply("ajustarStock", 400)
          /\ UNCHANGED <<db, pend>>
     ELSE IF tipo # "INC" /\ tipo # "DEC"
     THEN /\ resp' = Reply("ajustarStock", 400)
          /\ UNCHANGED <<db, pend>>
     ELSE IF id \notin DOMAIN producto
     THEN /\ resp' = Reply("ajustarStock", 404)
          /\ UNCHANGED <<db, pend>>
     ELSE LET ajuste == IF tipo = "INC" THEN cantidad ELSE 0 - cantidad
              abs == IF ajuste < 0 THEN 0 - ajuste ELSE ajuste
          IN /\ producto' = [producto EXCEPT ![id].ajustes = @ + ajuste]
             /\ ajuste_inventario' = Append(ajuste_inventario,
                   [tipo |-> IF tipo = "INC" THEN "E" ELSE "S",
                    num_productos |-> 1,
                    estado |-> "ACT",
                    detalles |-> <<[id_producto |-> id,
                                    cantidad |-> abs]>>])
             /\ resp' = Reply("ajustarStock", 200)
             /\ UNCHANGED <<compra, detalle_compra, nextDetalle, recepcion,
                            factura, anio, pend>>

\* POST /ajustes-inventario.  The body carries descripcion ("" when absent),
\* tipo and detalles, which is [esArray, items].
\* the lines of an adjustment applied to the ledger, one after the other
RECURSIVE AplicarAjuste(_, _, _)
AplicarAjuste(prod, items, sign) ==
  IF items = <<>> THEN prod
  ELSE LET d == Head(items)
       IN AplicarAjuste(
            [prod EXCEPT ![d.id_producto] =
               [@ EXCEPT !.ajustes = @ + sign * d.cantidad,
                         !.saldo_actual = @ + sign * d.cantidad]],
            Tail(items), sign)

ReplyAjuste(status) ==
  [op |-> "crearAjuste", status |-> status,
   body_status |-> IF status >= 400 THEN "error" ELSE "success"]

\* status of the request body alone, 0 when it is acceptable
EstadoCuerpoAjuste(body) ==
  IF body.descripcion = "" \/ body.tipo = "" THEN 400
  ELSE IF body.tipo # "E" /\ body.tipo # "S" THEN 400
  ELSE IF ~body.detalles.esArray THEN 400
  ELSE IF body.detalles.items = <<>> THEN 400
  ELSE 0

\* (mutant) tipo is not compared with E and S
crearAjusteSinTipo(body) ==
  /\ Len(ajuste_inventario) < MaxAjustes
  /\ LET items == body.detalles.items
         sign == IF body.tipo = "S" THEN -1 ELSE 1
         status ==
           IF body.descripcion = "" \/ ~body.detalles.esArray
              \/ items = <<>> THEN 400
           ELSE IF \E i \in 1..Len(items) :
                      items[i].id_producto \notin DOMAIN producto THEN 404
           ELSE IF \E id \in DOMAIN producto :
                      AplicarAjuste(producto, items, sign)[id].saldo_actual < 0
                THEN 409
           ELSE 0
     IN IF status # 0
        THEN /\ resp' = ReplyAjuste(status)
             /\ UNCHANGED <<db, pend>>
        ELSE /\ producto' = AplicarAjuste(producto, items, sign)
             /\ ajuste_inventario' = Append(ajuste_inventario,
                   [tipo |-> body.tipo,
                    num_productos |-> Len(items),
                    estado |-> "ACT",
                    detalles |-> items])
             /\ resp' = ReplyAjuste(201)
             /\ UNCHANGED <<compra, detalle_compra, nextDetalle, recepcion,
                            factura, anio, pend>>

crearAjuste(body) ==
  /\ Len(ajuste_inventario) < MaxAjustes
  /\ LET items == body.detalles.items
         sign == IF body.tipo = "S" THEN -1 ELSE 1
         status ==
           IF EstadoCuerpoAjuste(body) # 0 THEN EstadoCuerpoAjuste(body)
           ELSE IF \E i \in 1..Len(items) :
                      items[i].id_producto \notin DOMAIN producto THEN 404
           ELSE IF \E id \in DOMAIN producto :
                      AplicarAjuste(producto, items, sign)[id].saldo_actual < 0
                THEN 409
           ELSE 0
     IN IF status # 0
        THEN /\ resp' = ReplyAjuste(status)
             /\ UNCHANGED <<db, pend>>
        ELSE /\ producto' = AplicarAjuste(producto, items, sign)
             /\ ajuste_inventario' = Append(ajuste_inventario,
                   [tipo |-> body.tipo,
                    num_productos |-> Len(items),
                    estado |-> "ACT",
                    detalles |-> items])
             /\ resp' = ReplyAjuste(201)
             /\ UNCHANGED <<compra, detalle_compra, nextDetalle, recepcion,
                            factura, anio, pend>>

\* --------------------------------------------------------------- compra
\* table proveedor (catalog data, never written by the workflow)
proveedor == [s \in {"S1", "S2"} |-> IF s = "S1" THEN "ACT" ELSE "INA"]

RECURSIVE SortedIds(_)
SortedIds(S) ==
  IF S = {} THEN <<>>
  ELSE LET m == CHOOSE x \in S : \A y \in S : x <= y
       IN <<m>> \o SortedIds(S \ {m})

\* ids of the detalle_compra rows of order c, in insertion order
IdsDetalle(dc, c) == SortedIds({i \in DOMAIN dc : dc[i].id_compra = c})

\* (mutant) only the receipts that are not cancelled are counted
CountRecepcionActivas(c) ==
  Cardinality({i \in 1..Len(recepcion) :
                 recepcion[i].id_compra = c /\ recepcion[i].estado # "ANU"})

\* compra._count.recepcion: receipts of any state that reference order c
CountRecepcion(c) ==
  Cardinality({i \in 1..Len(recepcion) : recepcion[i].id_compra = c})

\* validarDetallesSinDuplicados: compares the ids as submitted
validarDetallesSinDuplicados(detalles) ==
  \A i, j \in 1..Len(detalles) :
     i # j => detalles[i].id_producto # detalles[j].id_producto

CostoExcesivo(c) == c.m > MaxCostoMilli \/ (c.m = MaxCostoMilli /\ c.t > 0)

\* "Validación básica de detalles" of crearCompra and actualizarCompra
ItemBasicoOk(item) ==
  /\ Len(Trim(item.id_producto)) # 0
  /\ item.cantidad > 0
  /\ ~(item.cantidad > MaxCantidad * 10)
  /\ CostoPositivo(item.costo_unitario)
  /\ ~CostoExcesivo(item.costo_unitario)

\* status of the product lookups of the detalles, 0 when all pass
RECURSIVE EstadoProductos(_)
EstadoProductos(detalles) ==
  IF detalles = <<>> THEN 0
  ELSE LET id == Trim(Head(detalles).id_producto)
       IN IF id \notin DOMAIN producto THEN 404
          ELSE IF producto[id].estado # "ACT" THEN 400
          ELSE EstadoProductos(Tail(detalles))

\* productosValidados followed by detallesConCalculos
DetalleCalculado(item) ==
  LET cantidad == ParseInt(item.cantidad)
      subtotal == cantidad * CostoE4(item.costo_unitario)
  IN [id_producto    |-> Trim(item.id_producto),
      costo_unitario |-> item.costo_unitario,
      cantidad       |-> cantidad,
      bruto          |-> subtotal,
      subtotal       |-> Round3(subtotal)]

DetallesConCalculos(detalles) ==
  [i \in 1..Len(detalles) |-> DetalleCalculado(detalles[i])]

SubtotalTotal(calc) == SumSeq([i \in 1..Len(calc) |-> calc[i].bruto])

\* the rows tx.detalle_compra.create inserts for order c, ids from `desde`
NuevasLineas(dc, c, calc, desde) ==
  [x \in DOMAIN dc \cup (desde..(desde + Len(calc) - 1)) |->
     IF x \in DOMAIN dc THEN dc[x]
     ELSE [id_compra         |-> c,
           id_producto       |-> calc[x - desde + 1].id_producto,
           cantidad          |-> calc[x - desde + 1].cantidad,
           costo_unitario    |-> calc[x - desde + 1].costo_unitario,
           subtotal          |-> calc[x - desde + 1].subtotal,
           cantidad_recibida |-> 0]]

\* POST /compras
crearCompra(id_proveedor, detalles) ==
  /\ Len(compra) < MaxCompras
  /\ nextDetalle + Len(detalles) - 1 <= MaxDetalleId
  /\ LET status ==
           IF id_proveedor = "" \/ Len(detalles) = 0 THEN 400
           ELSE IF ~validarDetallesSinDuplicados(detalles) THEN 400
           ELSE IF \E i \in 1..Len(detalles) : ~ItemBasicoOk(detalles[i])
                THEN 400
           ELSE IF id_proveedor \notin DOMAIN proveedor THEN 404
           ELSE IF proveedor[id_proveedor] # "ACT" THEN 400
           ELSE EstadoProductos(detalles)
         calc == DetallesConCalculos(detalles)
     IN IF status # 0
        THEN /\ resp' = Reply("crearCompra", status)
             /\ UNCHANGED <<db, pend>>
        ELSE /\ compra' = Append(compra,
                   [id_proveedor |-> id_proveedor,
                    subtotal     |-> SubtotalTotal(calc),
                    total        |-> Round3(SubtotalTotal(calc)),
                    estado       |-> "PEN"])
             /\ detalle_compra' =
                   NuevasLineas(detalle_compra, Len(compra) + 1, calc,
                                nextDetalle)
             /\ nextDetalle' = nextDetalle + Len(calc)
             /\ resp' = Reply("crearCompra", 201)
             /\ UNCHANGED <<producto, recepcion, ajuste_inventario, factura,
                            anio, pend>>

\* PUT /compras/:id, up to the $transaction: the validations and the reads
actualizarCompraLeer(p, id_compra, detalles) ==
  /\ pend[p] = Idle
  /\ nextDetalle + Len(detalles) - 1 <= MaxDetalleId
  /\ LET status ==
           IF Len(detalles) = 0 THEN 400
           ELSE IF ~validarDetallesSinDuplicados(detalles) THEN 400
           ELSE IF \E i \in 1..Len(detalles) : ~ItemBasicoOk(detalles[i])
                THEN 400
           ELSE IF id_compra \notin 1..Len(compra) THEN 404
           ELSE IF compra[id_compra].estado # "PEN" THEN 409
           ELSE IF CountRecepcion(id_compra) > 0 THEN 409
           ELSE EstadoProductos(detalles)
     IN IF status # 0
        THEN /\ resp' = Reply("actualizarCompra", status)
             /\ UNCHANGED <<db, pend>>
        ELSE /\ pend' = [pend EXCEPT ![p] =
                   [op        |-> "actualizarCompra",
                    id_compra |-> id_compra,
                    calc      |-> DetallesConCalculos(detalles)]]
             /\ UNCHANGED <<db, resp>>

\* PUT /compras/:id, the $transaction: deleteMany, create, update
actualizarCompraTx(p) ==
  /\ pend[p].op = "actualizarCompra"
  /\ nextDetalle + Len(pend[p].calc) - 1 <= MaxDetalleId
  /\ LET c == pend[p].id_compra
         calc == pend[p].calc
         resto == [x \in {i \in DOMAIN detalle_compra :
                            detalle_compra[i].id_compra # c}
                     |-> detalle_compra[x]]
     IN /\ detalle_compra' = NuevasLineas(resto, c, calc, nextDetalle)
        /\ nextDetalle' = nextDetalle + Len(calc)
        /\ compra' = [compra EXCEPT ![c].subtotal = SubtotalTotal(calc),
                                    ![c].total = Round3(SubtotalTotal(calc))]
        /\ pend' = [pend EXCEPT ![p] = Idle]
        /\ resp' = Reply("actualizarCompra", 200)
        /\ UNCHANGED <<producto, recepcion, ajuste_inventario, factura, anio>>

\* (mutant) the order is marked ANU before its receipts are counted
anularCompraLeerEscribeAntes(p, id_compra) ==
  /\ pend[p] = Idle
  /\ IF id_compra \notin 1..Len(compra)
     THEN /\ resp' = Reply("anularCompra", 404)
          /\ UNCHANGED <<db, pend>>
     ELSE IF compra[id_compra].estado = "ANU"
     THEN /\ resp' = Reply("anularCompra", 400)
          /\ UNCHANGED <<db, pend>>
     ELSE /\ compra' = [compra EXCEPT ![id_compra].estado = "ANU"]
          /\ resp' = Reply("anularCompra",
                           IF CountRecepcion(id_compra) > 0 THEN 409 ELSE 200)
          /\ UNCHANGED <<producto, detalle_compra, nextDetalle, recepcion,
                         ajuste_inventario, factura, anio, pend>>

\* DELETE /compras/:id, up to the update
anularCompraLeer(p, id_compra) ==
  /\ pend[p] = Idle
  /\ LET status ==
           IF id_compra \notin 1..Len(compra) THEN 404
           ELSE IF compra[id_compra].estado = "ANU" THEN 400
           ELSE IF CountRecepcion(id_compra) > 0 THEN 409
           ELSE 0
     IN IF status # 0
        THEN /\ resp' = Reply("anularCompra", status)
             /\ UNCHANGED <<db, pend>>
        ELSE /\ pend' = [pend EXCEPT ![p] =
                   [op |-> "anularCompra", id_compra |-> id_compra]]
             /\ UNCHANGED <<db, resp>>

\* (mutant) cancelling takes the ordered units out of each product's ingresos
anularCompraTxConStock(p) ==
  /\ pend[p].op = "anularCompra"
  /\ compra' = [compra EXCEPT ![pend[p].id_compra].estado = "ANU"]
  /\ producto' =
       [id \in DOMAIN producto |->
          IF \E i \in DOMAIN detalle_compra :
                /\ detalle_compra[i].id_compra = pend[p].id_compra
                /\ detalle_compra[i].id_producto = id
          THEN [producto[id] EXCEPT !.ingresos = @ - 1]
          ELSE producto[id]]
  /\ pend' = [pend EXCEPT ![p] = Idle]
  /\ resp' = Reply("anularCompra", 200)
  /\ UNCHANGED <<detalle_compra, nextDetalle, recepcion,
                 ajuste_inventario, factura, anio>>

\* DELETE /compras/:id, the update of estado
anularCompraTx(p) ==
  /\ pend[p].op = "anularCompra"
  /\ compra' = [compra EXCEPT ![pend[p].id_compra].estado = "ANU"]
  /\ pend' = [pend EXCEPT ![p] = Idle]
  /\ resp' = Reply("anularCompra", 200)
  /\ UNCHANGED <<producto, detalle_compra, nextDetalle, recepcion,
                 ajuste_inventario, factura, anio>>

\* ------------------------------------------------------------ recepcion
\* compra.detalles.find(d => d.id_producto === id): the first row, 0 if none
DetalleDe(dc, c, id) ==
  LET ids == IdsDetalle(dc, c)
      hits == {k \in 1..Len(ids) : dc[ids[k]].id_producto = id}
  IN IF hits = {} THEN 0
     ELSE ids[CHOOSE k \in hits : \A j \in hits : k <= j]

\* (mutant) the partial test is made before the complete test
NuevoEstadoParcialPrimero(dc, c) ==
  LET rows == {i \in DOMAIN dc : dc[i].id_compra = c}
      todosCompletos ==
        \A i \in rows : dc[i].cantidad_recibida >= dc[i].cantidad
      algunoRecibido == \E i \in rows : dc[i].cantidad_recibida > 0
  IN IF algunoRecibido THEN "PAR"
     ELSE IF todosCompletos THEN "CER"
     ELSE "PEN"

\* the state of order c recomputed from its detalle_compra rows
NuevoEstado(dc, c) ==
  LET rows == {i \in DOMAIN dc : dc[i].id_compra = c}
      todosCompletos ==
        \A i \in rows : dc[i].cantidad_recibida >= dc[i].cantidad
      algunoRecibido == \E i \in rows : dc[i].cantidad_recibida > 0
  IN IF todosCompletos THEN "CER"
     ELSE IF algunoRecibido THEN "PAR"
     ELSE "PEN"

\* status of step 3 "Validar productos y cantidades", 0 when all pass
RECURSIVE EstadoItemsRecepcion(_, _)
EstadoItemsRecepcion(c, detalles) ==
  IF detalles = <<>> THEN 0
  ELSE LET item == Head(detalles)
           d == DetalleDe(detalle_compra, c, item.productoId)
       IN IF d = 0 THEN 404
          ELSE IF item.cantidad > detalle_compra[d].cantidad
                                    - detalle_compra[d].cantidad_recibida
               THEN 400
          ELSE IF item.productoId \notin DOMAIN producto THEN 404
          ELSE EstadoItemsRecepcion(c, Tail(detalles))

NumPend(op) == Cardinality({p \in Procs : pend[p].op = op})

\* POST /bodega/recepciones, up to the $transaction
registrarRecepcionLeer(p, compraId, detalles) ==
  /\ pend[p] = Idle
  /\ Len(recepcion) + NumPend("registrarRecepcion") < MaxRecepciones
  /\ LET status ==
           IF compraId = 0 \/ Len(detalles) = 0 THEN 400
           ELSE IF \E i \in 1..Len(detalles) : detalles[i].cantidad <= 0
                THEN 400
           ELSE IF compraId \notin 1..Len(compra) THEN 404
           ELSE IF compra[compraId].estado = "ANU" THEN 400
           ELSE EstadoItemsRecepcion(compraId, detalles)
     IN IF status # 0
        THEN /\ resp' = Reply("registrarRecepcion", status)
             /\ UNCHANGED <<db, pend>>
        ELSE /\ pend' = [pend EXCEPT ![p] =
                   [op       |-> "registrarRecepcion",
                    compraId |-> compraId,
                    detallesValidados |->
                      [i \in 1..Len(detalles) |->
                         [productoId |-> detalles[i].productoId,
                          cantidad   |-> detalles[i].cantidad,
                          detalleCompraId |->
                            DetalleDe(detalle_compra, compraId,
                                      detalles[i].productoId)]]]]
             /\ UNCHANGED <<db, resp>>

\* the per-line updates of a receipt applied in order; sign is 1 to register
\* and -1 to revert.  st is [dc, prod].
RECURSIVE AplicarDetalles(_, _, _)
AplicarDetalles(st, detalles, sign) ==
  IF detalles = <<>> THEN st
  ELSE LET d == Head(detalles)
           dc1 == IF d.detalleCompraId = 0 THEN st.dc
                  ELSE [st.dc EXCEPT ![d.detalleCompraId].cantidad_recibida =
                                        @ + sign * d.cantidad]
           pr1 == [st.prod EXCEPT ![d.productoId].ingresos =
                                        @ + sign * d.cantidad]
       IN AplicarDetalles([dc |-> dc1, prod |-> pr1], Tail(detalles), sign)

\* a detalle_compra.update names a row that no longer exists: prisma throws
FilaPerdida(detalles) ==
  \E i \in 1..Len(detalles) :
     /\ detalles[i].detalleCompraId # 0
     /\ detalles[i].detalleCompraId \notin DOMAIN detalle_compra

\* POST /bodega/recepciones, the $transaction
registrarRecepcionTx(p) ==
  /\ pend[p].op = "registrarRecepcion"
  /\ pend' = [pend EXCEPT ![p] = Idle]
  /\ LET c == pend[p].compraId
         dv == pend[p].detallesValidados
         st == AplicarDetalles([dc |-> detalle_compra, prod |-> producto],
                               dv, 1)
     IN IF FilaPerdida(dv)
        THEN /\ resp' = Reply("registrarRecepcion", 500)
             /\ UNCHANGED db
        ELSE /\ recepcion' = Append(recepcion,
                   [id_compra     |-> c,
                    num_productos |-> Len(dv),
                    estado        |-> "ACT",
                    detalles      |->
                      [i \in 1..Len(dv) |->
                         [id_producto |-> dv[i].productoId,
                          cantidad    |-> dv[i].cantidad]]])
             /\ detalle_compra' = st.dc
             /\ producto' = st.prod
             /\ compra' = [compra EXCEPT ![c].estado = NuevoEstado(st.dc, c)]
             /\ resp' = Reply("registrarRecepcion", 201)
             /\ UNCHANGED <<nextDetalle, ajuste_inventario, factura, anio>>

\* DELETE /bodega/recepciones/:id, up to the $transaction
anularRecepcionLeer(p, id_recepcion) ==
  /\ pend[p] = Idle
  /\ LET status ==
           IF id_recepcion \notin 1..Len(recepcion) THEN 404
           ELSE IF recepcion[id_recepcion].estado = "ANU" THEN 409
           ELSE IF \E i \in 1..Len(recepcion[id_recepcion].detalles) :
                     LET d == recepcion[id_recepcion].detalles[i]
                     IN producto[d.id_producto].ingresos < d.cantidad
                THEN 400
           ELSE 0
     IN IF status # 0
        THEN /\ resp' = Reply("anularRecepcion", status)
             /\ UNCHANGED <<db, pend>>
        ELSE LET r == recepcion[id_recepcion]
             IN /\ pend' = [pend EXCEPT ![p] =
                      [op           |-> "anularRecepcion",
                       id_recepcion |-> id_recepcion,
                       id_compra    |-> r.id_compra,
                       detalles     |->
                         [i \in 1..Len(r.detalles) |->
                            [productoId |-> r.detalles[i].id_producto,
                             cantidad   |-> r.detalles[i].cantidad,
                             detalleCompraId |->
                               DetalleDe(detalle_compra, r.id_compra,
                                         r.detalles[i].id_producto)]]]]
                /\ UNCHANGED <<db, resp>>

\* DELETE /bodega/recepciones/:id, the $transaction
anularRecepcionTx(p) ==
  /\ pend[p].op = "anularRecepcion"
  /\ pend' = [pend EXCEPT ![p] = Idle]
  /\ LET c == pend[p].id_compra
         dv == pend[p].detalles
         st == AplicarDetalles([dc |-> detalle_compra, prod |-> producto],
                               dv, -1)
     IN IF FilaPerdida(dv)
        THEN /\ resp' = Reply("anularRecepcion", 500)
             /\ UNCHANGED db
        ELSE /\ recepcion' =
                   [recepcion EXCEPT ![pend[p].id_recepcion].estado = "ANU"]
             /\ detalle_compra' = st.dc
             /\ producto' = st.prod
             /\ compra' = [compra EXCEPT ![c].estado = NuevoEstado(st.dc, c)]
             /\ resp' = Reply("anularRecepcion", 200)
             /\ UNCHANGED <<nextDetalle, ajuste_inventario, factura, anio>>

\* PUT /bodega/recepciones/:id.  param is req.params.id: esNumero tells
\* whether Number() gives a number, id is that number.  The body is not read
\* past its destructuring.
modificarRecepcion(param) ==
  /\ resp' = Reply("modificarRecepcion",
                   IF ~param.esNumero THEN 400
                   ELSE IF param.id \notin 1..Len(recepcion) THEN 404
                   ELSE IF recepcion[param.id].estado = "CER" THEN 409
                   ELSE 200)
  /\ UNCHANGED <<db, pend>>

\* --------------------------------------------- recepcion, approval design
\* bodega.routes.js mounts POST /bodega/recepciones/:id/aprobar on
\* aprobarRecepcion, which bodega.controller.js does not define.  The two
\* operations below follow the Receipt Manager of the specification (open
\* and approve), with ABI as the draft state and CER as the approved one.

\* open(orderId): a draft receipt that mirrors the pending quantities
abrirRecepcion(compraId) ==
  /\ Len(recepcion) + NumPend("registrarRecepcion") < MaxRecepciones
  /\ IF compraId \notin 1..Len(compra)
     THEN /\ resp' = Reply("abrirRecepcion", 404)
          /\ UNCHANGED <<db, pend>>
     ELSE LET ids == IdsDetalle(detalle_compra, compraId)
          IN /\ recepcion' = Append(recepcion,
                   [id_compra     |-> compraId,
                    num_productos |-> Len(ids),
                    estado        |-> "ABI",
                    detalles      |->
                      [k \in 1..Len(ids) |->
                         [id_producto |-> detalle_compra[ids[k]].id_producto,
                          cantidad    |->
                            detalle_compra[ids[k]].cantidad
                              - detalle_compra[ids[k]].cantidad_recibida]]])
             /\ resp' = Reply("abrirRecepcion", 201)
             /\ UNCHANGED <<producto, compra, detalle_compra, nextDetalle,
                            ajuste_inventario, factura, anio, pend>>

\* the commit of approve(receiptId): inflow, balance and received quantity
\* grow by the receipt's quantities, one adjustment of direction E is logged,
\* the receipt is approved and the order state recomputed
ComprometerRecepcion(id) ==
  LET r == recepcion[id]
      dv == [i \in 1..Len(r.detalles) |->
               [productoId |-> r.detalles[i].id_producto,
                cantidad   |-> r.detalles[i].cantidad,
                detalleCompraId |->
                  DetalleDe(detalle_compra, r.id_compra,
                            r.detalles[i].id_producto)]]
      st == AplicarDetalles([dc |-> detalle_compra, prod |-> producto], dv, 1)
  IN /\ producto' =
          [x \in DOMAIN producto |->
             [st.prod[x] EXCEPT !.saldo_actual =
                @ + st.prod[x].ingresos - producto[x].ingresos]]
     /\ detalle_compra' = st.dc
     /\ ajuste_inventario' = Append(ajuste_inventario,
          [tipo |-> "E", num_productos |-> Len(r.detalles),
           estado |-> "ACT", detalles |-> r.detalles])
     /\ recepcion' = [recepcion EXCEPT ![id].estado = "CER"]
     /\ compra' = [compra EXCEPT ![r.id_compra].estado =
                      NuevoEstado(st.dc, r.id_compra)]
     /\ resp' = Reply("aprobarRecepcion", 200)
     /\ UNCHANGED <<nextDetalle, factura, anio, pend>>

\* (mutant) approve without the test of the receipt's state
aprobarRecepcionSinEstado(id) ==
  IF id \notin 1..Len(recepcion)
  THEN /\ resp' = Reply("aprobarRecepcion", 404)
       /\ UNCHANGED <<db, pend>>
  ELSE ComprometerRecepcion(id)

\* approve(receiptId): ConflictError unless the receipt is a draft
aprobarRecepcion(id) ==
  IF id \notin 1..Len(recepcion)
  THEN /\ resp' = Reply("aprobarRecepcion", 404)
       /\ UNCHANGED <<db, pend>>
  ELSE IF recepcion[id].estado # "ABI"
  THEN /\ resp' = Reply("aprobarRecepcion", 409)
       /\ UNCHANGED <<db, pend>>
  ELSE ComprometerRecepcion(id)

\* -------------------------------------------------------------- factura
\* tables cliente and iva (catalog data, never written by the workflow)
cliente == {"C1"}
iva == [i \in {1} |-> 12]

\* producto.stock: the column crearFacturaPOS reads and decrements is taken
\* to be the product's current balance, saldo_actual
Stock(p) == p.saldo_actual

\* (mutant) the stock of the products is not compared with the quantity
RECURSIVE EstadoItemsFacturaSinStock(_)
EstadoItemsFacturaSinStock(items) ==
  IF items = <<>> THEN 0
  ELSE IF Head(items).id_producto \notin DOMAIN producto THEN 404
  ELSE EstadoItemsFacturaSinStock(Tail(items))

\* status of step 3 "Validar productos y calcular totales", 0 when all pass
RECURSIVE EstadoItemsFactura(_)
EstadoItemsFactura(items) ==
  IF items = <<>> THEN 0
  ELSE LET item == Head(items)
       IN IF item.id_producto \notin DOMAIN producto THEN 404
          ELSE IF Stock(producto[item.id_producto]) < item.cantidad THEN 400
          ELSE EstadoItemsFactura(Tail(items))

DetalleFactura(item) ==
  LET precio == IF item.precio_unitario # 0 THEN item.precio_unitario
                ELSE producto[item.id_producto].precio_venta
      itemSubtotal == precio * item.cantidad
  IN [id_producto     |-> item.id_producto,
      cantidad        |-> item.cantidad,
      precio_unitario |-> Round3(precio),
      bruto           |-> itemSubtotal,
      subtotal        |-> Round3(itemSubtotal)]

\* parseFloat((subtotal * porcentajeIva / 100).toFixed(3)), in 1/10000
ValorIva(subtotal, porcentaje) ==
  ((subtotal * porcentaje + 500) \div 1000) * 10

\* ---- the id of an invoice, 'F-' year '-' sequence, as a string of characters
DigitChars == <<"0", "1", "2", "3", "4", "5", "6", "7", "8", "9">>

\* String(n) of a natural number
RECURSIVE StringOf(_)
StringOf(n) ==
  IF n < 10 THEN <<DigitChars[n + 1]>>
  ELSE StringOf(n \div 10) \o <<DigitChars[(n % 10) + 1]>>

\* String.prototype.padStart
RECURSIVE PadStart(_, _, _)
PadStart(str, n, c) == IF Len(str) >= n THEN str ELSE PadStart(<<c>> \o str, n, c)

\* `F-${año}-${String(numeroSecuencial).padStart(6, '0')}`
IdFactura(a, numeroSecuencial) ==
  <<"F", "-">> \o StringOf(a) \o <<"-">>
    \o PadStart(StringOf(numeroSecuencial), AnchoSecuencia, "0")

\* String.prototype.startsWith
StartsWith(str, pre) ==
  Len(str) >= Len(pre) /\ SubSeq(str, 1, Len(pre)) = pre

\* str.split('-')[k], k counted from 0
RECURSIVE SplitGuion(_, _)
SplitGuion(str, k) ==
  LET cortes == {i \in 1..Len(str) : str[i] = "-"}
      fin == IF cortes = {} THEN Len(str) + 1
             ELSE CHOOSE i \in cortes : \A j \in cortes : i <= j
  IN IF k = 0 THEN SubSeq(str, 1, fin - 1)
     ELSE IF cortes = {} THEN <<>>
     ELSE SplitGuion(SubSeq(str, fin + 1, Len(str)), k - 1)

DigitValue(c) == (CHOOSE d \in 1..10 : DigitChars[d] = c) - 1

\* parseInt of a string of decimal digits
RECURSIVE ParseIntStr(_)
ParseIntStr(str) ==
  IF str = <<>> THEN 0
  ELSE ParseIntStr(SubSeq(str, 1, Len(str) - 1)) * 10
       + DigitValue(str[Len(str)])

\* the position of a character in the order of the column's collation
CharOrden(c) ==
  IF c = "-" THEN 0 ELSE IF c = "F" THEN 11 ELSE DigitValue(c) + 1

\* x sorts before y as text
RECURSIVE TextoMenor(_, _)
TextoMenor(x, y) ==
  IF y = <<>> THEN FALSE
  ELSE IF x = <<>> THEN TRUE
  ELSE IF Head(x) # Head(y) THEN CharOrden(Head(x)) < CharOrden(Head(y))
  ELSE TextoMenor(Tail(x), Tail(y))

\* findFirst({startsWith: `F-${año}-`, orderBy: desc}) and
\* parseInt(partes[2]) + 1; 1 when the year has no invoice
NumeroSecuencial(a) ==
  LET pre == <<"F", "-">> \o StringOf(a) \o <<"-">>
      ids == {factura[i].id_factura : i \in 1..Len(factura)}
      delAnio == {x \in ids : StartsWith(x, pre)}
  IN IF delAnio = {} THEN 1
     ELSE ParseIntStr(SplitGuion(
            CHOOSE x \in delAnio : \A y \in delAnio : ~TextoMenor(x, y), 2))
          + 1

\* POST /facturas with cedula and items, steps 1 to 4: the client, the tax
\* rate, the products with their stock, the totals
crearFacturaPOSLeer(p, cedula, items, id_iva) ==
  /\ pend[p] = Idle
  /\ Len(factura) + NumPend("crearFacturaPOS") < MaxFacturas
  /\ LET status ==
           IF cedula \notin cliente THEN 404
           ELSE IF id_iva \notin DOMAIN iva THEN 404
           ELSE EstadoItemsFactura(items)
     IN IF status # 0
        THEN /\ resp' = Reply("crearFacturaPOS", status)
             /\ UNCHANGED <<db, pend>>
        ELSE LET det == [i \in 1..Len(items) |-> DetalleFactura(items[i])]
                 subtotal == SumSeq([i \in 1..Len(det) |-> det[i].bruto])
                 valorIva == ValorIva(subtotal, iva[id_iva])
             IN /\ pend' = [pend EXCEPT ![p] =
                      [op         |-> "crearFacturaPOS",
                       id_factura |-> <<>>,
                       id_iva     |-> id_iva,
                       subtotal   |-> Round3(subtotal),
                       total      |-> Round3(subtotal + valorIva),
                       detallesValidados |-> det]]
                /\ UNCHANGED <<db, resp>>

\* POST /facturas with cedula and items, step 5: the id of the invoice
crearFacturaPOSId(p) ==
  /\ pend[p].op = "crearFacturaPOS"
  /\ pend[p].id_factura = <<>>
  /\ pend' = [pend EXCEPT ![p].id_factura =
                 IdFactura(anio, NumeroSecuencial(anio))]
  /\ UNCHANGED <<db, resp>>

RECURSIVE DescontarStock(_, _)
DescontarStock(prod, det) ==
  IF det = <<>> THEN prod
  ELSE DescontarStock(
         [prod EXCEPT ![Head(det).id_producto].saldo_actual =
                         @ - Head(det).cantidad],
         Tail(det))

\* POST /facturas with cedula and items, the $transaction; the create of a
\* factura whose id_factura exists throws and the transaction rolls back
crearFacturaPOSTx(p) ==
  /\ pend[p].op = "crearFacturaPOS"
  /\ pend[p].id_factura # <<>>
  /\ pend' = [pend EXCEPT ![p] = Idle]
  /\ IF \E i \in 1..Len(factura) : factura[i].id_factura = pend[p].id_factura
     THEN /\ resp' = Reply("crearFacturaPOS", 500)
          /\ UNCHANGED db
     ELSE /\ factura' = Append(factura,
                [id_factura |-> pend[p].id_factura,
                 id_iva     |-> pend[p].id_iva,
                 subtotal   |-> pend[p].subtotal,
                 total      |-> pend[p].total,
                 estado     |-> "EMI",
                 detalles   |->
                   [i \in 1..Len(pend[p].detallesValidados) |->
                      [id_producto     |->
                         pend[p].detallesValidados[i].id_producto,
                       cantidad        |->
                         pend[p].detallesValidados[i].cantidad,
                       precio_unitario |->
                         pend[p].detallesValidados[i].precio_unitario,
                       subtotal        |->
                         pend[p].detallesValidados[i].subtotal]]])
          /\ producto' = DescontarStock(producto, pend[p].detallesValidados)
          /\ resp' = Reply("crearFacturaPOS", 201)
          /\ UNCHANGED <<compra, detalle_compra, nextDetalle, recepcion,
                         ajuste_inventario, anio>>

\* /^F-\d{4}-\d{6}$/.test(id)
FormatoFactura(id) ==
  /\ Len(id) = 7 + AnchoSecuencia
  /\ id[1] = "F" /\ id[2] = "-" /\ id[7] = "-"
  /\ \A i \in (3..6) \cup (8..Len(id)) :
        \E d \in 1..10 : DigitChars[d] = id[i]

\* the row of factura with this id_factura, 0 if none
FilaFactura(id) ==
  IF \E n \in 1..Len(factura) : factura[n].id_factura = id
  THEN CHOOSE n \in 1..Len(factura) : factura[n].id_factura = id
  ELSE 0

\* The database function fn_anular_factura, which the repository calls and
\* does not define; taken from the Invoice Manager's cancel: an error when
\* the invoice is absent or not EMI, otherwise the invoice becomes ANU.
fn_anular_factura(id) ==
  LET n == FilaFactura(id)
  IN IF n = 0 THEN [resultado |-> FALSE, factura |-> factura]
     ELSE IF factura[n].estado # "EMI"
     THEN [resultado |-> FALSE, factura |-> factura]
     ELSE [resultado |-> TRUE,
           factura |-> [factura EXCEPT ![n].estado = "ANU"]]

\* POST /facturas/:id/anular
anularFactura(id) ==
  IF ~FormatoFactura(id)
  THEN /\ resp' = Reply("anularFactura", 400)
       /\ UNCHANGED <<db, pend>>
  ELSE LET anulacion == fn_anular_factura(id)
       IN IF ~anulacion.resultado
          THEN /\ resp' = Reply("anularFactura", 400)
               /\ UNCHANGED <<db, pend>>
          ELSE /\ factura' = anulacion.factura
               /\ resp' = Reply("anularFactura", 200)
               /\ UNCHANGED <<producto, compra, detalle_compra, nextDetalle,
                              recepcion, ajuste_inventario, anio, pend>>

\* POST /facturas/:id/anular as the other factura.controller.js has it: the
\* id goes to the database function without the test of its format
anularFactura_sinFormato(id) ==
  LET anulacion == fn_anular_factura(id)
  IN IF ~anulacion.resultado
     THEN /\ resp' = Reply("anularFactura", 400)
          /\ UNCHANGED <<db, pend>>
     ELSE /\ factura' = anulacion.factura
          /\ resp' = Reply("anularFactura", 200)
          /\ UNCHANGED <<producto, compra, detalle_compra, nextDetalle,
                         recepcion, ajuste_inventario, anio, pend>>

\* new Date().getFullYear() after a New Year has passed
cambiarAnio ==
  /\ anio < 2026 + MaxAnios
  /\ anio' = anio + 1
  /\ UNCHANGED <<producto, compra, detalle_compra, nextDetalle, recepcion,
                 ajuste_inventario, factura, pend, resp>>

\* ------------------------------------------------------- specifications
SeqsUpTo(S, n) == UNION {[1..k -> S] : k \in 0..n}

TodosIdProducto == {NuevoIdProducto(n) : n \in 1..MaxProductos}

\* request bodies of the order and receipt workflow
ItemsCompra ==
  [id_producto : TodosIdProducto, cantidad : {20},
   costo_unitario : {[m |-> 2500, t |-> 0]}]
ItemsRecepcion == [productoId : TodosIdProducto, cantidad : {0, 1, 2}]
ItemsFactura ==
  [id_producto : TodosIdProducto, cantidad : {1, 2}, precio_unitario : {0}]
\* lines whose unit price has a fourth decimal (0 stands for no price sent)
ItemsFacturaPrecio ==
  [id_producto : {NuevoIdProducto(1)}, cantidad : {1, 2},
   precio_unitario : {0, 2, 25004}]
ItemsFacturaPar ==
  [id_producto : TodosIdProducto, cantidad : {2}, precio_unitario : {0}]

\* request bodies that exercise the conversions of crearCompra: padded ids,
\* fractional quantities, costs with four decimals, values beyond the maxima
ItemsCalculo ==
  [id_producto : {NuevoIdProducto(1), <<" ">> \o NuevoIdProducto(1),
                  NuevoIdProducto(2)},
   cantidad : {5, 20, (MaxCantidad + 1) * 10},
   costo_unitario : {[m |-> 0, t |-> 2], [m |-> 2500, t |-> 0],
                     [m |-> MaxCostoMilli, t |-> 1]}]
  \cup {[id_producto |-> <<" ">>, cantidad |-> 20,
         costo_unitario |-> [m |-> 2500, t |-> 0]],
        [id_producto |-> NuevoIdProducto(1), cantidad |-> 0,
         costo_unitario |-> [m |-> 2500, t |-> 0]],
        [id_producto |-> NuevoIdProducto(1), cantidad |-> 20,
         costo_unitario |-> [m |-> 0, t |-> 0]]}

NextProducto(Saldos) ==
  \E precio \in {0, 25000}, saldo \in Saldos : crearProducto(precio, saldo)

\* request bodies of ajustar-stock: cantidad negative, absent (0) or
\* positive; tipo absent, valid or unknown
CantidadesAjuste == {-1, 0, 1, 2}
TiposAjuste == {"", "INC", "DEC", "XXX"}

NextAjuste ==
  \E id \in TodosIdProducto, cantidad \in CantidadesAjuste,
     tipo \in TiposAjuste : ajustarStock(id, cantidad, tipo)

NextAjusteProductos ==
  \E id \in TodosIdProducto, cantidad \in CantidadesAjuste,
     tipo \in TiposAjuste : ajustarStock_productos(id, cantidad, tipo)

NextCrearCompra(Items) ==
  \E prov \in {"", "S0", "S1", "S2"}, d \in SeqsUpTo(Items, MaxLineas) :
     crearCompra(prov, d)

NextEditarCompra(Ps, Items) ==
  \/ \E p \in Ps, c \in 1..MaxCompras, d \in SeqsUpTo(Items, MaxLineas) :
        actualizarCompraLeer(p, c, d)
  \/ \E p \in Ps : actualizarCompraTx(p)
  \/ \E p \in Ps, c \in 1..MaxCompras : anularCompraLeer(p, c)
  \/ \E p \in Ps : anularCompraTx(p)

NextRecepcion(Ps) ==
  \/ \E p \in Ps, c \in 0..MaxCompras,
        d \in SeqsUpTo(ItemsRecepcion, MaxLineas) :
        registrarRecepcionLeer(p, c, d)
  \/ \E p \in Ps : registrarRecepcionTx(p)
  \/ \E p \in Ps, r \in 1..MaxRecepciones : anularRecepcionLeer(p, r)
  \/ \E p \in Ps : anularRecepcionTx(p)

\* the :id of the receipt routes: a number, or text that is not one
ParamsRecepcion ==
  [esNumero : {TRUE}, id : 1..MaxRecepciones] \cup {[esNumero |-> FALSE, id |-> 0]}

NextFactura(Ps, Items) ==
  \/ \E p \in Ps, cedula \in {"C0", "C1"}, id_iva \in {1, 2},
        items \in SeqsUpTo(Items, MaxLineas) \ {<<>>} :
        crearFacturaPOSLeer(p, cedula, items, id_iva)
  \/ \E p \in Ps : crearFacturaPOSId(p)
  \/ \E p \in Ps : crearFacturaPOSTx(p)

\* two clients receiving and reverting against orders of up to MaxLineas
\* products; the orders are not edited
NextRecepciones ==
  \/ NextProducto({0})
  \/ NextCrearCompra(ItemsCompra)
  \/ NextRecepcion(Procs)
  \/ \E param \in ParamsRecepcion : modificarRecepcion(param)
SpecRecepcion == Init /\ [][NextRecepciones]_vars

\* manual adjustments by either handler over products of any balance
NextAjustes ==
  \/ NextProducto({0, 2})
  \/ NextAjuste
  \/ NextAjusteProductos
SpecAjuste == Init /\ [][NextAjustes]_vars

\* request bodies of crearAjuste: descripcion absent or present, tipo valid
\* or unknown, detalles null or an array of lines
CuerposAjuste ==
  [descripcion : {"", "x"}, tipo : {"E", "S", "X"},
   detalles : {[esArray |-> FALSE, items |-> <<>>]}
              \cup [esArray : {TRUE},
                    items : SeqsUpTo([id_producto : TodosIdProducto,
                                      cantidad : {1, 2}], MaxLineas)]]

\* products and adjustment documents
NextCrearAjuste ==
  \/ NextProducto({0, 2})
  \/ \E body \in CuerposAjuste : crearAjuste(body)
SpecCrearAjuste == Init /\ [][NextCrearAjuste]_vars

\* request bodies of PUT /productos/:id
CuerposProducto ==
  [codigoDuplicado : BOOLEAN,
   precio_venta : {[def |-> FALSE, v |-> 0], [def |-> TRUE, v |-> 0],
                   [def |-> TRUE, v |-> 30000]},
   costoNegativo : BOOLEAN, catalogoAusente : BOOLEAN]

NextMantenimiento ==
  \/ \E id \in TodosIdProducto, body \in CuerposProducto :
        actualizarProducto(id, body)
  \/ \E id \in TodosIdProducto, estado \in {"", "ACT", "INA", "X"} :
        cambiarEstadoProducto(id, estado)
  \/ \E id \in TodosIdProducto : eliminarProducto(id)

\* the catalog of products maintained while their stock is adjusted
NextCatalogo ==
  \/ NextProducto({0, 2})
  \/ NextAjuste
  \/ NextMantenimiento
SpecCatalogo == Init /\ [][NextCatalogo]_vars

\* two clients invoicing one product of balance 2
NextFacturas ==
  \/ (producto = <<>> /\ NextProducto({2}))
  \/ NextFactura(Procs, ItemsFactura)
SpecFacturas == Init /\ [][NextFacturas]_vars

\* one client invoicing one product at prices of up to four decimals
NextTotales ==
  \/ (producto = <<>> /\ NextProducto({4}))
  \/ NextFactura({"a"}, ItemsFacturaPrecio)
SpecTotales == Init /\ [][NextTotales]_vars

\* The invoices of a year already issued when the calls below begin.  Only
\* the row of greatest id is kept: it is the one findFirst reads, and the
\* rows before it carry smaller sequence numbers of the same width.  The row
\* is the sale of one unit of P1 to C1.
SecuenciasPrevias == {1, 10^AnchoSecuencia - 1}

FacturaPrevia(n) ==
  [id_factura |-> IdFactura(2026, n),
   id_iva     |-> 1,
   subtotal   |-> 25000,
   total      |-> Round3(25000 + ValorIva(25000, iva[1])),
   estado     |-> "EMI",
   detalles   |-> <<[id_producto |-> NuevoIdProducto(1), cantidad |-> 1,
                     precio_unitario |-> 25000, subtotal |-> 25000]>>]

InitSecuencia ==
  /\ producto = (NuevoIdProducto(1) :>
                   [precio_venta  |-> 25000,
                    saldo_inicial |-> 5,
                    ingresos      |-> 0,
                    egresos       |-> 0,
                    ajustes       |-> 0,
                    saldo_actual  |-> 4,
                    estado        |-> "ACT"])
  /\ compra = <<>>
  /\ detalle_compra = <<>>
  /\ nextDetalle = 1
  /\ recepcion = <<>>
  /\ ajuste_inventario = <<>>
  /\ factura \in {<<FacturaPrevia(n)>> : n \in SecuenciasPrevias}
  /\ anio = 2026
  /\ pend = [p \in Procs |-> Idle]
  /\ resp = Reply("none", 0)

\* the :id of the invoice routes: the id of an invoice, ids of no invoice,
\* text of another form
IdsAnular ==
  {factura[n].id_factura : n \in 1..Len(factura)}
    \cup {IdFactura(2026, 2), IdFactura(2026, 10^AnchoSecuencia),
          <<"F", "-", "1">>}

NextAnularFactura ==
  \/ \E id \in IdsAnular : anularFactura(id)
  \/ \E id \in IdsAnular : anularFactura_sinFormato(id)

\* one client invoicing and cancelling, call after call, across a change of
\* year
NextSecuencia ==
  \/ NextFactura({"a"}, ItemsFactura)
  \/ NextAnularFactura
  \/ cambiarAnio
SpecSecuencia == InitSecuencia /\ [][NextSecuencia]_vars

\* the approval design of receipts: drafts are opened, approved and edited
NextAprobar ==
  \/ NextProducto({0})
  \/ NextCrearCompra(ItemsCompra)
  \/ \E c \in 0..MaxCompras : abrirRecepcion(c)
  \/ \E id \in 1..MaxRecepciones : aprobarRecepcion(id)
  \/ \E param \in ParamsRecepcion : modificarRecepcion(param)
SpecAprobar == Init /\ [][NextAprobar]_vars

\* two clients editing, cancelling and receiving orders of one product
NextOrden ==
  \/ (producto = <<>> /\ NextProducto({0}))
  \/ NextCrearCompra(ItemsCompra)
  \/ NextEditarCompra(Procs, ItemsCompra)
  \/ NextRecepcion(Procs)
SpecOrden == Init /\ [][NextOrden]_vars

\* one client calling crearCompra and actualizarCompra with bodies that
\* exercise trimming, parseInt, the bounds and the rounding
NextCalculo ==
  \/ NextProducto({0})
  \/ NextCrearCompra(ItemsCalculo)
  \/ NextEditarCompra({"a"}, ItemsCalculo)
SpecCalculo == Init /\ [][NextCalculo]_vars

\* one client in the whole workflow over one product
Next ==
  \/ (producto = <<>> /\ NextProducto({0, 2}))
  \/ NextAjuste
  \/ NextCrearCompra(ItemsCompra)
  \/ NextEditarCompra({"a"}, ItemsCompra)
  \/ NextRecepcion({"a"})
  \/ NextFactura({"a"}, ItemsFacturaPar)
Spec == Init /\ [][Next]_vars

\* ---------------------------------------------------------------- claims
TieneRecepcion(c) == \E i \in 1..Len(recepcion) : recepcion[i].id_compra = c
LineasDe(c) == {i \in DOMAIN detalle_compra : detalle_compra[i].id_compra = c}

\* C1: every product satisfies
\* saldo_actual = saldo_inicial + ingresos - egresos + ajustes.
C1_SaldoCuadra ==
  \A id \in DOMAIN producto :
     producto[id].saldo_actual =
       producto[id].saldo_inicial + producto[id].ingresos
         - producto[id].egresos + producto[id].ajustes

\* C2: the current balance of every product is never negative.
C2_SaldoNoNegativo ==
  \A id \in DOMAIN producto : producto[id].saldo_actual >= 0

\* C3: no purchase order line has received more than was ordered.
C3_RecibidaNoExcede ==
  \A i \in DOMAIN detalle_compra :
     detalle_compra[i].cantidad_recibida <= detalle_compra[i].cantidad

\* the body of actualizarCompra fails the validations made before the order
\* is read
CuerpoInvalido(d) ==
  \/ Len(d) = 0
  \/ \E i, j \in 1..Len(d) : i # j /\ d[i].id_producto = d[j].id_producto
  \/ \E i \in 1..Len(d) : ~ItemBasicoOk(d[i])

C5_ReemplazaSoloPendiente ==
  [][\A p \in Procs :
       actualizarCompraTx(p) =>
         /\ compra[pend[p].id_compra].estado = "PEN"
         /\ ~TieneRecepcion(pend[p].id_compra)]_vars

\* C6: an order that anularCompra moves to ANU was in state PEN, with no
\* receipt, immediately before.
C6_AnulaSoloPendiente ==
  [][\A p \in Procs :
       anularCompraTx(p) =>
         /\ compra[pend[p].id_compra].estado = "PEN"
         /\ ~TieneRecepcion(pend[p].id_compra)]_vars

\* C7: every persisted order has total = sum of its line subtotals, and every
\* line has subtotal = round(cantidad x costo_unitario, 3).
C7_TotalCuadra ==
  \A c \in 1..Len(compra) :
     LET ids == IdsDetalle(detalle_compra, c)
     IN /\ compra[c].total =
             SumSeq([k \in 1..Len(ids) |-> detalle_compra[ids[k]].subtotal])
        /\ \A i \in LineasDe(c) :
             detalle_compra[i].subtotal =
               Round3(detalle_compra[i].cantidad
                        * CostoE4(detalle_compra[i].costo_unitario))

\* C8: the lines of a persisted order have pairwise distinct product ids.
C8_ProductosDistintos ==
  \A i, j \in DOMAIN detalle_compra :
     (i # j /\ detalle_compra[i].id_compra = detalle_compra[j].id_compra)
       => detalle_compra[i].id_producto # detalle_compra[j].id_producto

\* C9: every persisted line has 0 < cantidad <= 999999 and
\* 0 < costo_unitario <= 999999.999.
C9_RangosPersistidos ==
  \A i \in DOMAIN detalle_compra :
     /\ 0 < detalle_compra[i].cantidad
     /\ detalle_compra[i].cantidad <= MaxCantidad
     /\ CostoPositivo(detalle_compra[i].costo_unitario)
     /\ ~CostoExcesivo(detalle_compra[i].costo_unitario)

\* C10: after every committed registrarRecepcion or anularRecepcion the order
\* is CER when every line is fully received, PAR when some line has been
\* received but not all are complete, and PEN when no line has been received.
C10_EstadoRecalculado ==
  [][\A p \in Procs :
       ( \/ (registrarRecepcionTx(p) /\ resp'.status = 201)
         \/ (anularRecepcionTx(p) /\ resp'.status = 200) )
       => LET c == IF pend[p].op = "registrarRecepcion"
                   THEN pend[p].compraId ELSE pend[p].id_compra
              rows == {i \in DOMAIN detalle_compra' :
                         detalle_compra'[i].id_compra = c}
              todos == \A i \in rows : detalle_compra'[i].cantidad_recibida
                                         >= detalle_compra'[i].cantidad
              alguno == \E i \in rows :
                           detalle_compra'[i].cantidad_recibida > 0
          IN /\ todos => compra'[c].estado = "CER"
             /\ (~todos /\ alguno) => compra'[c].estado = "PAR"
             /\ (~todos /\ ~alguno) => compra'[c].estado = "PEN"]_vars

\* a receipt of one of the two lines of an order has just been committed and
\* left the order PAR
C10_Witness ==
  /\ resp = Reply("registrarRecepcion", 201)
  /\ \E c \in 1..Len(compra) :
        /\ compra[c].estado = "PAR"
        /\ Cardinality(LineasDe(c)) = 2
        /\ \E i \in LineasDe(c) :
              detalle_compra[i].cantidad_recibida
                >= detalle_compra[i].cantidad
        /\ \E i \in LineasDe(c) : detalle_compra[i].cantidad_recibida = 0

\* C11: a receipt is cancelled at most once: the transaction of anularRecepcion
\* reverts the quantities only of a receipt that is not yet ANU when it commits.
C11_AnulaUnaVez ==
  [][\A p \in Procs :
       (anularRecepcionTx(p) /\ resp'.status = 200) =>
         recepcion[pend[p].id_recepcion].estado # "ANU"]_vars

\* units of product id in the lines of the approved receipts
RECURSIVE UnidadesAprobadas(_, _)
UnidadesAprobadas(id, n) ==
  IF n = 0 THEN 0
  ELSE UnidadesAprobadas(id, n - 1)
       + (IF recepcion[n].estado = "CER"
          THEN SumSeq([i \in 1..Len(recepcion[n].detalles) |->
                         IF recepcion[n].detalles[i].id_producto = id
                         THEN recepcion[n].detalles[i].cantidad ELSE 0])
          ELSE 0)

\* C12: approving a receipt that is no longer a draft answers 409 and changes
\* nothing, and every product's inflow and balance hold exactly one commit of
\* the quantities of each approved receipt.
C12_ApruebaUnaVez ==
  /\ [][\A id \in 1..MaxRecepciones :
          (aprobarRecepcion(id) /\ id \in 1..Len(recepcion)
             /\ recepcion[id].estado # "ABI")
          => (resp' = Reply("aprobarRecepcion", 409) /\ UNCHANGED db)]_vars
  /\ [](\A id \in DOMAIN producto :
          /\ producto[id].ingresos = UnidadesAprobadas(id, Len(recepcion))
          /\ producto[id].saldo_actual =
               producto[id].saldo_inicial
                 + UnidadesAprobadas(id, Len(recepcion)))

\* the second approval of a receipt of two units has just been refused
C12_Witness ==
  /\ resp = Reply("aprobarRecepcion", 409)
  /\ \E n \in 1..Len(recepcion), id \in DOMAIN producto :
        /\ recepcion[n].estado = "CER"
        /\ producto[id].ingresos = 2
        /\ UnidadesAprobadas(id, Len(recepcion)) = 2

\* C13: modificarRecepcion on a receipt in a state other than the open one
\* (closed or cancelled) answers 409.
C13_SoloAbiertaSeModifica ==
  [][\A id \in 1..MaxRecepciones :
       (modificarRecepcion([esNumero |-> TRUE, id |-> id])
          /\ id \in 1..Len(recepcion)
          /\ recepcion[id].estado \in {"CER", "ANU"})
       => resp'.status = 409]_vars

\* a call of either ajustarStock handler
AjustarStockCualquiera(id, cantidad, tipo) ==
  \/ ajustarStock(id, cantidad, tipo)
  \/ ajustarStock_productos(id, cantidad, tipo)

\* C14: ajustarStock answers 400 and changes nothing when cantidad <= 0 or
\* tipo is not INC or DEC, answers 404 when the product does not exist, and
\* every adjustment it logs with tipo E increased ajustes and every one with
\* tipo S decreased it.
C14_AjusteValidado ==
  [][\A id \in TodosIdProducto, cantidad \in CantidadesAjuste,
        tipo \in TiposAjuste :
       AjustarStockCualquiera(id, cantidad, tipo) =>
         /\ (cantidad <= 0 \/ tipo \notin {"INC", "DEC"})
              => (resp'.status = 400 /\ UNCHANGED db)
         /\ (cantidad > 0 /\ tipo \in {"INC", "DEC"}
               /\ id \notin DOMAIN producto)
              => (resp'.status = 404 /\ UNCHANGED db)
         /\ Len(ajuste_inventario') > Len(ajuste_inventario)
              => LET a == ajuste_inventario'[Len(ajuste_inventario')]
                 IN /\ a.tipo = "E"
                         => producto'[id].ajustes > producto[id].ajustes
                    /\ a.tipo = "S"
                         => producto'[id].ajustes < producto[id].ajustes]_vars

\* C15: a DEC adjustment of more than the product's saldo_actual is refused
\* with an error and changes nothing.
C15_DecSinSaldoRechazado ==
  [][\A id \in TodosIdProducto, cantidad \in CantidadesAjuste :
       (AjustarStockCualquiera(id, cantidad, "DEC")
          /\ id \in DOMAIN producto
          /\ cantidad > producto[id].saldo_actual)
       => (resp'.status >= 400 /\ UNCHANGED db)]_vars

\* C16: a successful ajustarStock changes ajustes and saldo_actual by the same
\* signed amount (+cantidad for INC, -cantidad for DEC) and adds exactly one
\* ajuste_inventario row with exactly one detalle; a failed one changes
\* nothing.
C16_AjusteAtomico ==
  [][\A id \in TodosIdProducto, cantidad \in CantidadesAjuste,
        tipo \in TiposAjuste :
       AjustarStockCualquiera(id, cantidad, tipo) =>
         IF resp'.status = 200
         THEN LET delta == IF tipo = "INC" THEN cantidad ELSE 0 - cantidad
              IN /\ producto'[id].ajustes = producto[id].ajustes + delta
                 /\ producto'[id].saldo_actual
                      = producto[id].saldo_actual + delta
                 /\ Len(ajuste_inventario') = Len(ajuste_inventario) + 1
                 /\ Len(ajuste_inventario'[Len(ajuste_inventario')].detalles)
                      = 1
         ELSE UNCHANGED db]_vars

\* C17: every step that commits an increment of a product's ingresos or
\* ajustes also adds an ajuste_inventario row; in particular a committed
\* registrarRecepcion does.
C17_IncrementoConBitacora ==
  [][(\E id \in DOMAIN producto \cap DOMAIN producto' :
         \/ producto'[id].ingresos > producto[id].ingresos
         \/ producto'[id].ajustes > producto[id].ajustes)
     => Len(ajuste_inventario') = Len(ajuste_inventario) + 1]_vars

\* the first line of items that asks for more than the balance of its
\* product, 0 if none
PrimerExceso(items) ==
  LET S == {k \in 1..Len(items) :
              /\ items[k].id_producto \in DOMAIN producto
              /\ items[k].cantidad > Stock(producto[items[k].id_producto])}
  IN IF S = {} THEN 0 ELSE CHOOSE k \in S : \A j \in S : k <= j

\* C18 (as stated): a POS invoice with a line that asks for more than the
\* balance of its product is refused with the insufficient-stock error (400),
\* creates no factura and leaves every stock unchanged.
C18_SiempreStockInsuficiente ==
  [][\A p \in Procs, cedula \in {"C0", "C1"}, id_iva \in {1, 2},
        items \in SeqsUpTo(ItemsFactura, MaxLineas) :
       (PrimerExceso(items) # 0
          /\ crearFacturaPOSLeer(p, cedula, items, id_iva))
       => (resp'.status = 400 /\ UNCHANGED <<db, pend>>)]_vars

\* C18 (amended): such a call is refused, creates no factura and leaves every
\* stock unchanged; the answer is 404 when the client or the tax rate does
\* not exist or a line before the first over-asking one names a product that
\* does not exist, and the insufficient-stock error (400) otherwise.
C18_RechazaSinStock ==
  [][\A p \in Procs, cedula \in {"C0", "C1"}, id_iva \in {1, 2},
        items \in SeqsUpTo(ItemsFactura, MaxLineas) :
       (PrimerExceso(items) # 0
          /\ crearFacturaPOSLeer(p, cedula, items, id_iva))
       => /\ resp' = Reply("crearFacturaPOS",
                 IF \/ cedula \notin cliente
                    \/ id_iva \notin DOMAIN iva
                    \/ \E j \in 1..(PrimerExceso(items) - 1) :
                          items[j].id_producto \notin DOMAIN producto
                 THEN 404 ELSE 400)
          /\ UNCHANGED <<db, pend>>]_vars

\* a call asking for more than the balance left by an earlier invoice has
\* just been refused with 400
C18_Witness ==
  /\ resp = Reply("crearFacturaPOS", 400)
  /\ Len(factura) = 1
  /\ \E id \in DOMAIN producto : producto[id].saldo_actual = 1

\* C19: an invoice commits its decrement only while the stock of each of its
\* lines still covers the quantity asked: no other invoice's decrement comes
\* between the check and the decrement.
C19_DescuentoConStock ==
  [][\A p \in Procs :
       (crearFacturaPOSTx(p) /\ resp'.status = 201)
       => \A i \in 1..Len(pend[p].detallesValidados) :
             Stock(producto[pend[p].detallesValidados[i].id_producto])
               >= pend[p].detallesValidados[i].cantidad]_vars

\* C20: under sequential calls the id that crearFacturaPOS allocates is the id
\* of no existing invoice, of the same year or of an earlier one, and the
\* ids of the invoices are pairwise distinct.
C20_IdsDistintos ==
  /\ [](\A i, j \in 1..Len(factura) :
          i # j => factura[i].id_factura # factura[j].id_factura)
  /\ [][\A p \in Procs :
          crearFacturaPOSTx(p)
          => \A i \in 1..Len(factura) :
                factura[i].id_factura # pend[p].id_factura]_vars

\* C21: two concurrent crearFacturaPOS calls never hold the same id_factura,
\* computed from the same read of the greatest existing id.
C21_IdsConcurrentesDistintos ==
  \A p, q \in Procs :
     (p # q /\ pend[p].op = "crearFacturaPOS" /\ pend[q].op = "crearFacturaPOS"
        /\ pend[p].id_factura # <<>>)
     => pend[p].id_factura # pend[q].id_factura

\* C22: every persisted invoice has total = subtotal + round(subtotal x
\* porcentaje / 100, 3) and subtotal = the sum of its line subtotals.
C22_TotalFactura ==
  \A n \in 1..Len(factura) :
     LET f == factura[n]
     IN /\ f.total = f.subtotal + ValorIva(f.subtotal, iva[f.id_iva])
        /\ f.subtotal =
             SumSeq([i \in 1..Len(f.detalles) |-> f.detalles[i].subtotal])

\* C23: anularFactura succeeds only on an existing invoice in state EMI, which
\* it leaves ANU; on an absent invoice it answers not-found (404), and on an
\* invoice in another state a conflict (409) with the state unchanged.
C23_AnulaSoloEmitida ==
  [][\A id \in IdsAnular :
       (anularFactura(id) \/ anularFactura_sinFormato(id)) =>
         LET n == FilaFactura(id)
         IN IF n = 0
            THEN resp'.status = 404 /\ UNCHANGED db
            ELSE IF factura[n].estado = "EMI"
            THEN resp'.status = 200 /\ factura'[n].estado = "ANU"
            ELSE resp'.status = 409 /\ UNCHANGED db]_vars

\* the rows of every table
persistido ==
  <<producto, compra, detalle_compra, nextDetalle, recepcion,
    ajuste_inventario, factura>>

\* C24: a step that answers with a business error (4xx) leaves every table
\* unchanged.
C24_ErrorSinCambio ==
  [][(resp'.status >= 400 /\ resp'.status <= 499)
     => UNCHANGED persistido]_vars

\* anularCompra has just been refused with 409 on an order that has a
\* receipt, after other operations had committed
C24_Witness ==
  /\ resp = Reply("anularCompra", 409)
  /\ \E c \in 1..Len(compra) : TieneRecepcion(c) /\ compra[c].estado # "ANU"

\* the five ledger fields of every product
Ledger(prod) ==
  [id \in DOMAIN prod |->
     <<prod[id].saldo_inicial, prod[id].ingresos, prod[id].egresos,
       prod[id].ajustes, prod[id].saldo_actual>>]

\* C25: a step of crearCompra, actualizarCompra or anularCompra, answered
\* with success or with an error, leaves the ledger fields of every product
\* as they were.
C25_CompraSinEfectoEnStock ==
  [][(NextCrearCompra(ItemsCompra) \/ NextEditarCompra(Procs, ItemsCompra))
     => Ledger(producto') = Ledger(producto)]_vars

\* an order of an existing product has been created, edited and cancelled
C25_Witness ==
  /\ resp = Reply("anularCompra", 200)
  /\ \E c \in 1..Len(compra) :
        /\ compra[c].estado = "ANU"
        /\ \E i \in LineasDe(c) : detalle_compra[i].id_producto \in DOMAIN producto

\* C26: crearAjuste answers 400 with status 'error' and writes nothing when
\* descripcion is missing, tipo is neither E nor S, or detalles is not an
\* array.
C26_AjusteRechazado ==
  [][\A body \in CuerposAjuste :
       (crearAjuste(body)
          /\ (body.descripcion = "" \/ body.tipo \notin {"E", "S"}
              \/ ~body.detalles.esArray))
       => (resp'.status = 400 /\ resp'.body_status = "error"
           /\ UNCHANGED db)]_vars

\* crearAjuste has refused a request with 400 while products exist
C26_Witness ==
  /\ resp = ReplyAjuste(400)
  /\ producto # <<>>

\* the sequence numbers of the invoices of year a
SecuenciasDe(a) ==
  {ParseIntStr(SplitGuion(factura[i].id_factura, 2)) :
     i \in {j \in 1..Len(factura) :
              StartsWith(factura[j].id_factura,
                         <<"F", "-">> \o StringOf(a) \o <<"-">>)}}

\* C27: the id that crearFacturaPOS generates passes the format check
\* F-YYYY-NNNNNN of anularFactura and buscarFacturas; it has sequence 1 when
\* the year has no invoice, and otherwise the greatest sequence number of the
\* year plus one.
C27_SecuenciaDelAnio ==
  [][\A p \in Procs :
       crearFacturaPOSId(p) =>
         LET id == pend'[p].id_factura
             n == ParseIntStr(SplitGuion(id, 2))
         IN /\ FormatoFactura(id)
            /\ StartsWith(id, <<"F", "-">> \o StringOf(anio) \o <<"-">>)
            /\ IF SecuenciasDe(anio) = {} THEN n = 1
               ELSE \A m \in SecuenciasDe(anio) : m < n
                    /\ n - 1 \in SecuenciasDe(anio)]_vars

\* C28: actualizarProducto, cambiarEstadoProducto and eliminarProducto leave
\* the five inventory fields of every product as they were, and the product
\* that crearProducto creates has ingresos = egresos = ajustes = 0 and
\* saldo_actual = saldo_inicial.
C28_InventarioIntacto ==
  [][/\ NextMantenimiento => Ledger(producto') = Ledger(producto)
     /\ (NextProducto({0, 2}) /\ producto' # producto)
        => \A id \in DOMAIN producto' \ DOMAIN producto :
              /\ producto'[id].ingresos = 0
              /\ producto'[id].egresos = 0
              /\ producto'[id].ajustes = 0
              /\ producto'[id].saldo_actual = producto'[id].saldo_inicial]_vars

\* a product whose stock had been adjusted has had its price updated
C28_Witness ==
  /\ resp = Reply("actualizarProducto", 200)
  /\ \E id \in DOMAIN producto :
        /\ producto[id].precio_venta = 30000
        /\ producto[id].ajustes # 0
        /\ producto[id].saldo_actual # producto[id].saldo_inicial

\* the receipts attached to order c
RecepcionesDe(rec, c) == {i \in 1..Len(rec) : rec[i].id_compra = c}

\* C29: an order in state ANU stays in state ANU and gets no new receipt,
\* whatever the interleaving of anularCompra with registrarRecepcion and
\* anularRecepcion on the order.
C29_AnuladaEsTerminal ==
  [][\A c \in 1..Len(compra) :
       compra[c].estado = "ANU"
       => /\ compra'[c].estado = "ANU"
          /\ RecepcionesDe(recepcion', c) = RecepcionesDe(recepcion, c)]_vars

\* units of product id in the lines of the receipts 1..n that are not
\* cancelled, of order c or, when c = 0, of any order
RECURSIVE UnidadesActivas(_, _, _)
UnidadesActivas(c, id, n) ==
  IF n = 0 THEN 0
  ELSE UnidadesActivas(c, id, n - 1)
       + (IF recepcion[n].estado # "ANU"
             /\ (c = 0 \/ recepcion[n].id_compra = c)
          THEN SumSeq([i \in 1..Len(recepcion[n].detalles) |->
                         IF recepcion[n].detalles[i].id_producto = id
                         THEN recepcion[n].detalles[i].cantidad ELSE 0])
          ELSE 0)

\* units of product id received on the lines of order c
RecibidasDe(c, id) ==
  LET ids == IdsDetalle(detalle_compra, c)
  IN SumSeq([k \in 1..Len(ids) |->
               IF detalle_compra[ids[k]].id_producto = id
               THEN detalle_compra[ids[k]].cantidad_recibida ELSE 0])

\* C30: registering a receipt and then cancelling it is a round trip: the
\* ingresos of every product and the cantidad_recibida of every order line
\* are the units of the receipts that are still active, so that a cancelled
\* receipt leaves nothing behind; the state of the order is the state of
\* those quantities; and no ingresos or cantidad_recibida is negative.
C30_IdaYVuelta ==
  /\ \A id \in DOMAIN producto :
        /\ producto[id].ingresos >= 0
        /\ producto[id].ingresos = UnidadesActivas(0, id, Len(recepcion))
  /\ \A i \in DOMAIN detalle_compra : detalle_compra[i].cantidad_recibida >= 0
  /\ \A c \in 1..Len(compra) :
        /\ compra[c].estado = NuevoEstado(detalle_compra, c)
        /\ \A id \in DOMAIN producto :
              RecibidasDe(c, id) = UnidadesActivas(c, id, Len(recepcion))

====
